---- MODULE Spec2Model ----
(***************************************************************************)
(* ShopAppAgent (shop.app transaction orchestrator): one run() of the      *)
(* agent against a nondeterministic browser page, a nondeterministic       *)
(* completion service and a human answering the selection prompt.          *)
(*                                                                         *)
(* Strings are sequences of tokens (single characters for titles, lines    *)
(* and completion answers; fixed phrases for the agent's own messages), so *)
(* trim, toLowerCase, includes, split/filter and parseInt are computed.    *)
(* A Product keeps title and href; brand, price, rating and reviewCount    *)
(* never influence control flow and are left out.                          *)
(***************************************************************************)
EXTENDS Integers, Sequences, FiniteSets, TLC

(* ---------------------------- bounds ---------------------------------- *)
\* Exceptions the environment may raise in one run (in an attempt of a
\* supervised operation, in initialize, in goBack, in the screenshot).
MaxFaults == 4

\* Runs that may be left behind, not yet returned, by later requests.
MaxTails == 1

(* ------------------------ program constants --------------------------- *)
maxRetries == 3
retryDelay == 1000
BuyNowMaxRetries == 1
RankLimit == 5

(* --------------------------- string helpers --------------------------- *)
Lower(c) == IF c = "A" THEN "a" ELSE IF c = "B" THEN "b" ELSE IF c = "C" THEN "c" ELSE c

toLowerCase(s) == [i \in DOMAIN s |-> Lower(s[i])]

\* String.prototype.includes: t occurs in s as a contiguous substring.
includes(s, t) ==
    \E i \in 0..(Len(s) - Len(t)) : SubSeq(s, i + 1, i + Len(t)) = t

startsWith(s, t) == Len(s) >= Len(t) /\ SubSeq(s, 1, Len(t)) = t

IsSpace(c) == c = " "

RECURSIVE trimStart(_)
trimStart(s) == IF s # <<>> /\ IsSpace(Head(s)) THEN trimStart(Tail(s)) ELSE s

RECURSIVE trimEnd(_)
trimEnd(s) ==
    IF s # <<>> /\ IsSpace(s[Len(s)]) THEN trimEnd(SubSeq(s, 1, Len(s) - 1)) ELSE s

trim(s) == trimEnd(trimStart(s))

\* Array.prototype.slice(0, n)
slice(a, n) == SubSeq(a, 1, IF Len(a) < n THEN Len(a) ELSE n)

RECURSIVE splitFrom(_, _)
\* String.prototype.split('\n'): cur is the piece being read
splitFrom(s, cur) ==
    IF s = <<>> THEN <<cur>>
    ELSE IF Head(s) = "\n" THEN <<cur>> \o splitFrom(Tail(s), <<>>)
    ELSE splitFrom(Tail(s), Append(cur, Head(s)))

split(s) == splitFrom(s, <<>>)

\* .map(line => line.trim())
mapTrim(a) == [i \in DOMAIN a |-> trim(a[i])]

RECURSIVE filterNonEmpty(_)
\* .filter(line => line.length > 0)
filterNonEmpty(a) ==
    IF a = <<>> THEN <<>>
    ELSE (IF Len(Head(a)) > 0 THEN <<Head(a)>> ELSE <<>>) \o filterNonEmpty(Tail(a))

RECURSIVE Pow2(_)
Pow2(n) == IF n <= 0 THEN 1 ELSE 2 * Pow2(n - 1)

\* A value that may be absent (null / undefined / missing element).
Some(v) == [some |-> TRUE, v |-> v]
None == [some |-> FALSE, v |-> <<>>]

\* JavaScript numbers as far as parseInt produces them: an integer or NaN.
Num(k) == [nan |-> FALSE, n |-> k]
NaN == [nan |-> TRUE, n |-> 0]

DigitVal(c) ==
    CASE c = "0" -> 0 [] c = "1" -> 1 [] c = "2" -> 2 [] c = "3" -> 3
      [] c = "4" -> 4 [] c = "5" -> 5 [] c = "6" -> 6 [] c = "7" -> 7
      [] c = "8" -> 8 [] c = "9" -> 9 [] OTHER -> -1

IsDigit(c) == DigitVal(c) >= 0

RECURSIVE digits(_, _)
\* value of the longest digit prefix of s, acc being the digits read so far
digits(s, acc) ==
    IF s # <<>> /\ IsDigit(Head(s)) THEN digits(Tail(s), 10 * acc + DigitVal(Head(s)))
    ELSE acc

\* parseInt(s): skip leading white space, an optional sign, then the longest
\* run of decimal digits; NaN when there is no digit.
parseInt(s) ==
    LET t == trimStart(s)
        neg == t # <<>> /\ Head(t) = "-"
        u == IF t # <<>> /\ Head(t) \in {"-", "+"} THEN Tail(t) ELSE t
    IN IF u = <<>> \/ ~IsDigit(Head(u)) THEN NaN
       ELSE Num(IF neg THEN 0 - digits(u, 0) ELSE digits(u, 0))

\* a[i] of a JavaScript array for a number i: undefined unless i is an
\* integer index inside the array.
At(a, i) ==
    IF ~i.nan /\ i.n >= 0 /\ i.n < Len(a) THEN Some(a[i.n + 1]) ELSE None

(* --------------------------- environment ------------------------------ *)
\* Lines the user may type as a request.
userPrompts == {<<"w", " ">>, <<" ">>}

\* A product card of the results page: the text of its title element and
\* its link element's href (None: no such element; an empty text: the
\* element is there without text / attribute); err: reading it throws.
Card(t, l, e) == [title |-> t, link |-> l, err |-> e]

Good(t, h) == Card(Some(t), Some(h), FALSE)

PageEmpty == <<>>

PageUnusable ==
    << Card(None, Some(<<"/", "1">>), FALSE),
       Card(Some(<<"a">>), None, FALSE),
       Card(Some(<<"a">>), Some(<<>>), FALSE),
       Card(Some(<<"a">>), Some(<<"/", "1">>), TRUE) >>

PageTwo == << Good(<<" ", "A", "b", " ">>, <<"/", "1">>), Good(<<"a">>, <<"http", "2">>) >>

PageBlank == << Good(<<" ">>, <<"/", "0">>), Good(<<"c">>, <<"/", "3">>) >>

PageSix ==
    << Good(<<"a">>, <<"/", "1">>), Good(<<"b">>, <<"/", "2">>),
       Good(<<"c">>, <<"/", "3">>), Good(<<"d">>, <<"/", "4">>),
       Good(<<"e">>, <<"/", "5">>), Good(<<"f">>, <<"/", "6">>) >>

\* Contents the results page may show when it is read.
Pages == {PageEmpty, PageUnusable, PageTwo, PageBlank, PageSix}

\* Errors of the completion service call (axios.post rejecting, or a reply
\* without choices[0].message).
CompletionErrors == {<<"Request failed with status code 429">>}

\* Errors of a page-automation call.
PageError == <<"Timeout 30000ms exceeded">>

\* Replies to the query-planning prompt.
QueryContents == {<<" ", "q", " ">>}

\* Replies to the ranking prompt.
RankContents ==
    { <<>>,
      <<"z">>,
      <<"A", "\n", " ", "b", " ", "\n", "\n", "z", "z">>,
      <<"a", "\n", "A", "\n", "a", "\n", "A", "\n", "a", "\n", "A">>,
      <<"f", "\n", "e", "\n", "d", "\n", "c", "\n", "b", "\n", "a">> }

\* Replies to the label-compression prompt.
LabelContents == {<<"x">>, <<"x", "\n", " ", "y">>}

\* Lines the user may type at the selection prompt.
SelectionResponses == {<<" ", "2">>, <<" ">>}

\* Replies to the choice-resolution prompt: message.content, or None when
\* the reply has no choices[0].
IndexContents ==
    { None, Some(<<>>), Some(<<"x">>), Some(<<"0">>), Some(<<"-", "1">>),
      Some(<<"1">>), Some(<<" ", "2", "x">>), Some(<<"9", "9">>) }

(* ---------------------- pure parts of the agent ----------------------- *)
Product(t, h) == [title |-> t, href |-> h]

\* extractProducts, the body of the loop over one card: the product the
\* card contributes, if any.  A card whose reading throws is skipped.
cardProduct(card) ==
    LET title == IF card.title.some THEN card.title.v ELSE <<>>
        href == IF card.link.some THEN card.link.v ELSE <<>>
    IN IF ~card.err /\ title # <<>> /\ href # <<>>
       THEN Some(Product(trim(title),
                         IF startsWith(href, <<"http">>) THEN href
                         ELSE <<"https://shop.app">> \o href))
       ELSE None

RECURSIVE extractCards(_)
extractCards(cards) ==
    IF cards = <<>> THEN <<>>
    ELSE (IF cardProduct(Head(cards)).some THEN <<cardProduct(Head(cards)).v>> ELSE <<>>)
         \o extractCards(Tail(cards))

\* the predicate of products.find in selectBestProducts
titleMatches(p, title) ==
    \/ includes(toLowerCase(p.title), toLowerCase(title))
    \/ includes(toLowerCase(title), toLowerCase(p.title))

RECURSIVE findProduct(_, _)
\* Array.prototype.find: the first product matching the title
findProduct(ps, title) ==
    IF ps = <<>> THEN None
    ELSE IF titleMatches(Head(ps), title) THEN Some(Head(ps))
    ELSE findProduct(Tail(ps), title)

RECURSIVE matchTitles(_, _, _)
\* the loop over selectedTitles, acc being selectedProducts so far
matchTitles(titles, ps, acc) ==
    IF titles = <<>> THEN acc
    ELSE LET product == findProduct(ps, Head(titles))
         IN matchTitles(Tail(titles), ps,
                IF product.some /\ Len(acc) < RankLimit THEN Append(acc, product.v)
                ELSE acc)

\* the lines of a ranking reply that are looked up
selectedTitlesOf(content) == filterNonEmpty(mapTrim(split(content)))

\* rankFromReply, had it filled the list up with the first products
rankFromReply_pad(ps, content) ==
    slice(matchTitles(selectedTitlesOf(content), ps, <<>>) \o ps, RankLimit)

\* selectBestProducts, the supervised operation applied to a reply
rankFromReply(ps, content) ==
    LET selectedProducts0 == matchTitles(selectedTitlesOf(content), ps, <<>>)
    IN IF Len(selectedProducts0) # RankLimit THEN slice(selectedProducts0, RankLimit)
       ELSE selectedProducts0

\* rankFallback, had it returned every product
rankFallback_all(ps) == ps

\* selectBestProducts, the catch block
rankFallback(ps) == slice(ps, RankLimit)

\* turnSelectedProductsIntoReadableNames applied to a reply
labelsFromReply(content) == mapTrim(split(content))

\* getSelectedProduct applied to a reply
indexFromReply(reply) ==
    parseInt(IF reply.some /\ reply.v # <<>> THEN reply.v ELSE <<"0">>)

\* clickProduct: a card of the page that the loop would click for the product
clickable(cards, product) ==
    \E i \in DOMAIN cards :
        /\ ~cards[i].err
        /\ cards[i].title.some
        /\ cards[i].title.v # <<>>
        /\ trim(cards[i].title.v) = product.title
        /\ cards[i].link.some

(* ----------------------------- messages ------------------------------- *)
FailedMsg(opName, n, max, emsg) ==
    <<" ">> \o opName \o <<" failed (attempt ", ToString(n), "/", ToString(max), "): ">> \o emsg

RetryingMsg(delay) == <<"Retrying in ", ToString(delay), "ms...">>

ExhaustedError(opName, max, emsg) ==
    opName \o <<" failed after ", ToString(max), " attempts. Last error: ">> \o emsg

OpQuery == <<"Generating search query">>
OpSearch == <<"Search operation">>
OpExtract == <<"Product extraction">>
OpRank == <<"Selecting best products">>
OpLabels == <<"Turning selected products into readable names">>
OpIndex == <<"Getting selected product">>
OpClick(product) == <<"Clicking product: ">> \o product.title
OpBuyNow == <<"Clicking buy now button">>

\* the text run() looks for in the error of clickBuyNow
BuyNowMarker == <<"Clicking buy now button", " failed after ">>

MsgQueryFallback(prompt) == <<" Failed to generate search query, using original prompt: ">> \o prompt
MsgShopSelected == <<"Shop.app has been selected for this query!">>
MsgQueryReady(q) == <<"Query ready! searching shop.app with \"">> \o q \o <<"\"">>
MsgWaiting == <<"Waiting for search results to load...">>
MsgGathering == <<"Gathering items from shop.app search results">>
MsgPicking(n) == <<"Picking best items from ", ToString(n), " products">>
MsgRankFallback == <<"Failed to select best products, using first 5 products">>
MsgHeading == <<"Heading to checkout">>
MsgBuyNowFailed == <<"Buy now failed, going back to search results to try again...">>
MsgRetrying(product) == <<"Retrying with the same selection: ">> \o product.title
MsgRetryFailed(emsg) == <<" Retry failed: ">> \o emsg
MsgCheckoutReached == <<"Checkout reached">>
MsgOrderSetUp == <<"Your order has been set up successfully!">>
MsgIndexFallback == <<" Failed to parse product selection, defaulting to first product">>
MsgUserSelected == <<"User selected a product!">>
MsgNoProductsFound == <<" No products found. The search might have failed or the page structure changed.">>
MsgNoneSelected == <<"No products could be selected for purchase.">>
MsgCritical(emsg) == <<"Critical error in agent execution: ">> \o emsg

ErrNoCards == <<"No product cards found on the page">>
ErrNoneExtracted == <<"No products could be extracted from the page">>
ErrNotFound(product) == <<"Could not find product: ">> \o product.title
ErrNotProductPage(u) ==
    <<"Not on a product page. Current URL: ", u, ". Buy now button only available on product pages.">>
ErrNoButton == <<"Buy now button not found with any selector">>
ErrNoSelection == <<"No products available for selection">>

(* ------------------------------ state --------------------------------- *)
\* The functions of the agent and of the callback whose calls are counted.
Functions ==
    {"initialize", "generateSearchQuery", "navigateToShopApp", "performSearch",
     "extractProducts", "selectBestProducts", "turnSelectedProductsIntoReadableNames",
     "sendOptions", "getSelectedProduct", "clickProduct", "clickBuyNow",
     "retryWithOriginalSelection", "close"}

VARIABLES
    pc,                   \* where run() is
    attempt,              \* retryWithBackoff: the loop variable
    faults,               \* exceptions the environment has raised so far
    inRecovery,           \* inside the try block of retryWithOriginalSelection
    err,                  \* message of the Error being propagated
    browser,              \* this.browser: "none", "open" or "closed"
    url,                  \* kind of page the browser is on
    userPrompt,
    searchQuery,
    products,
    selectedProducts,
    labels,               \* the readable names handed to sendOptions
    selectedOption,
    selectedProductIndex,
    selectedProduct,      \* run(): let selectedProduct
    originalSelection,
    clickTarget,          \* the argument of the clickProduct call in progress
    msgs,                 \* texts sent with callback.sendMessage since the agent
                          \* function in progress (or last completed) was entered
    waits,                \* backoff delays slept since then
    ev,                   \* external calls made by the last step, in order
    calls,                \* how often each function has been called in this run
    answers,              \* how often the selection promise has been resolved
    images,               \* number of callback.sendImage calls
    opened,               \* titles of the cards clickProduct has clicked
    rankReply,            \* the ranking reply selectBestProducts returned from, if any
    isProcessing,         \* App: React state
    isTakingInput,
    isRespondingToOptions,
    pendingOptionsResolve, \* TRUE: holds the resolve of the pending promise; FALSE: null
    tails,                \* earlier runs that have not returned yet, their browser open
    uber                  \* UberEatsAgent: an orderMeal call and the agent's browser

ctl == <<pc, attempt, faults, inRecovery, err>>
session == <<browser, url>>
data == <<userPrompt, searchQuery, products, selectedProducts, labels, selectedOption,
          selectedProductIndex, selectedProduct, originalSelection, clickTarget>>
obs == <<msgs, waits, ev, calls, answers, images, opened, rankReply>>
ui == <<isProcessing, isTakingInput, isRespondingToOptions, pendingOptionsResolve>>
vars == <<ctl, session, data, obs, ui, tails, uber>>

NoProduct == Product(<<>>, <<>>)
NoSelection ==
    [set |-> FALSE, selectedProduct |-> NoProduct, selectedOption |-> <<>>,
     selectedProductIndex |-> NaN]

\* UberEatsAgent after its constructor, orderMeal not called yet
UberIdle ==
    [pc |-> "idle", keepBrowserOpen |-> TRUE, browser |-> "none",
     isAuthenticated |-> FALSE, searchQuery |-> "", menuItems |-> 0,
     itemsToAdd |-> <<>>, cart |-> <<>>, thrown |-> "", result |-> "none"]

Init ==
    /\ pc = "idle"
    /\ attempt = 1
    /\ faults = 0
    /\ inRecovery = FALSE
    /\ err = <<>>
    /\ browser = "none"
    /\ url = "none"
    /\ userPrompt = <<>>
    /\ searchQuery = <<>>
    /\ products = <<>>
    /\ selectedProducts = <<>>
    /\ labels = <<>>
    /\ selectedOption = <<>>
    /\ selectedProductIndex = NaN
    /\ selectedProduct = None
    /\ originalSelection = NoSelection
    /\ clickTarget = NoProduct
    /\ msgs = <<>>
    /\ waits = <<>>
    /\ ev = <<>>
    /\ calls = [f \in Functions |-> 0]
    /\ answers = 0
    /\ images = 0
    /\ opened = <<>>
    /\ rankReply = None
    /\ isProcessing = FALSE
    /\ isTakingInput = TRUE
    /\ isRespondingToOptions = FALSE
    /\ pendingOptionsResolve = FALSE
    /\ tails = 0
    /\ uber = UberIdle

(* -------------------------- Retry Supervisor -------------------------- *)
\* retryWithBackoff, had the warnings been numbered from 0
retryWithBackoff_fromZero(opName, max, emsg) ==
    LET delay == retryDelay * Pow2(attempt - 1)
    IN [ msgs  |-> <<FailedMsg(opName, attempt - 1, max, emsg)>>
                   \o (IF attempt < max THEN <<RetryingMsg(delay)>> ELSE <<>>),
         waits |-> IF attempt < max THEN <<delay>> ELSE <<>>,
         again |-> attempt < max,
         error |-> ExhaustedError(opName, max, emsg) ]

\* retryWithBackoff, had it waited retryDelay after every failed attempt
retryWithBackoff_flat(opName, max, emsg) ==
    [ msgs  |-> <<FailedMsg(opName, attempt, max, emsg)>>
                \o (IF attempt < max THEN <<RetryingMsg(retryDelay)>> ELSE <<>>),
      waits |-> <<retryDelay>>,
      again |-> attempt < max,
      error |-> ExhaustedError(opName, max, emsg) ]

\* retryWithBackoff, had the loop given up after the first failure
retryWithBackoff_once(opName, max, emsg) ==
    [ msgs  |-> <<FailedMsg(opName, attempt, max, emsg)>>,
      waits |-> <<>>,
      again |-> FALSE,
      error |-> ExhaustedError(opName, max, emsg) ]

\* retryWithBackoff, the catch block of attempt number `attempt` of an
\* operation that threw emsg: what it sends and sleeps, whether the loop
\* goes round again, and the Error thrown after the loop otherwise.
retryWithBackoff(opName, max, emsg) ==
    LET delay == retryDelay * Pow2(attempt - 1)
    IN [ msgs  |-> <<FailedMsg(opName, attempt, max, emsg)>>
                   \o (IF attempt < max THEN <<RetryingMsg(delay)>> ELSE <<>>),
         waits |-> IF attempt < max THEN <<delay>> ELSE <<>>,
         again |-> attempt < max,
         error |-> ExhaustedError(opName, max, emsg) ]

Fault == faults < MaxFaults /\ faults' = faults + 1

\* A function is entered: its call is counted and the windows start afresh.
Enter(fname) == calls' = [calls EXCEPT ![fname] = @ + 1]

\* The first attempt of a function that starts with its supervised
\* operation is its entry.
EnterOnFirst(fname) == IF attempt = 1 THEN Enter(fname) ELSE UNCHANGED calls

\* the window x as the attempt in progress finds it
Win(x) == IF attempt = 1 THEN <<>> ELSE x

\* catchOf, had the Error left run() uncaught: run() rejects
catchOf_escape == "rejected"

\* catchOf, had run() started the recovery for the Error of any stage
catchOf_recover == IF inRecovery THEN "retryCatch" ELSE "retryWithOriginalSelection"

\* catchOf, had the Error been swallowed without a report
catchOf_swallow == "finally"

\* where an Error thrown by a stage of run() is caught
catchOf == IF inRecovery THEN "retryCatch" ELSE "catch"

\* buyNowCatchOf, had the recovery been started again from inside itself
buyNowCatchOf_again(e) ==
    IF includes(e, BuyNowMarker) THEN "retryWithOriginalSelection" ELSE "catch"

\* where an Error thrown by clickBuyNow is caught: run() starts the
\* recovery when the message carries the marker
buyNowCatchOf(e) ==
    IF inRecovery THEN "retryCatch"
    ELSE IF includes(e, BuyNowMarker) THEN "retryWithOriginalSelection"
    ELSE "catch"

(* ------------------------------ run() --------------------------------- *)
\* initialize: the launch fails (no browser), or a later step fails (the
\* browser is open), or the page is on shop.app
Initialize ==
    /\ pc = "initialize"
    /\ Enter("initialize")
    /\ ev' = <<"page">>
    /\ msgs' = <<>> /\ waits' = <<>>
    /\ \/ /\ browser' = "open" /\ url' = "home"
          /\ pc' = "generateSearchQuery" /\ attempt' = 1
          /\ UNCHANGED <<faults, err>>
       \/ /\ Fault
          /\ \E b \in {"none", "open"} : browser' = b
          /\ err' = PageError /\ pc' = "catch"
          /\ UNCHANGED <<url, attempt>>
    /\ UNCHANGED <<ui, tails, uber, inRecovery, data, answers, images, opened, rankReply>>

\* queryFallback, had the catch block returned no query
queryFallback_empty(prompt) == <<>>

\* generateSearchQuery, the catch block: the query it returns
queryFallback(prompt) == prompt

GenerateSearchQuery ==
    /\ pc = "generateSearchQuery"
    /\ EnterOnFirst("generateSearchQuery")
    /\ ev' = <<"llm">>
    /\ \/ \E c \in QueryContents :
            /\ searchQuery' = trim(c)
            /\ pc' = "navigateToShopApp" /\ attempt' = 1
            /\ msgs' = Win(msgs) /\ waits' = Win(waits)
            /\ UNCHANGED faults
       \/ \E e \in CompletionErrors :
            LET r == retryWithBackoff(OpQuery, maxRetries, e)
            IN /\ Fault
               /\ waits' = Win(waits) \o r.waits
               /\ IF r.again
                  THEN /\ msgs' = Win(msgs) \o r.msgs
                       /\ attempt' = attempt + 1
                       /\ UNCHANGED <<pc, searchQuery>>
                  ELSE /\ msgs' = Win(msgs) \o r.msgs \o <<MsgQueryFallback(userPrompt)>>
                       /\ searchQuery' = queryFallback(userPrompt)
                       /\ pc' = "navigateToShopApp" /\ attempt' = 1
    /\ UNCHANGED <<ui, tails, uber, inRecovery, err, session, userPrompt, products, selectedProducts, labels,
                   selectedOption, selectedProductIndex, selectedProduct, originalSelection,
                   clickTarget, answers, images, opened, rankReply>>

NavigateToShopApp ==
    /\ pc = "navigateToShopApp"
    /\ Enter("navigateToShopApp")
    /\ ev' = <<>>
    /\ msgs' = <<MsgShopSelected>> /\ waits' = <<>>
    /\ pc' = "performSearch"
    /\ UNCHANGED <<ui, tails, uber, attempt, faults, inRecovery, err, session, data, answers, images, opened,
                   rankReply>>

PerformSearch ==
    /\ pc = "performSearch"
    /\ Enter("performSearch")
    /\ ev' = <<>>
    /\ msgs' = <<MsgQueryReady(searchQuery)>> /\ waits' = <<>>
    /\ pc' = "search" /\ attempt' = 1
    /\ UNCHANGED <<ui, tails, uber, faults, inRecovery, err, session, data, answers, images, opened, rankReply>>

\* One attempt of the search operation: goto fails, or the wait for the
\* load fails after the "Waiting" message, or the results are loaded.
SearchAttempt ==
    /\ pc = "search"
    /\ ev' = <<"page">>
    /\ \/ /\ url' = "results"
          /\ msgs' = Append(msgs, MsgWaiting)
          /\ pc' = "extractProducts" /\ attempt' = 1
          /\ UNCHANGED <<faults, err, waits>>
       \/ \E loaded \in BOOLEAN :
            LET r == retryWithBackoff(OpSearch, maxRetries, PageError)
                pre == IF loaded THEN <<MsgWaiting>> ELSE <<>>
            IN /\ Fault
               /\ url' = IF loaded THEN "results" ELSE url
               /\ msgs' = msgs \o pre \o r.msgs
               /\ waits' = waits \o r.waits
               /\ IF r.again
                  THEN attempt' = attempt + 1 /\ UNCHANGED <<pc, err>>
                  ELSE err' = r.error /\ pc' = catchOf /\ UNCHANGED attempt
    /\ UNCHANGED <<ui, tails, uber, inRecovery, browser, data, calls, answers, images, opened, rankReply>>

ExtractProducts ==
    /\ pc = "extractProducts"
    /\ Enter("extractProducts")
    /\ ev' = <<>>
    /\ msgs' = <<MsgGathering>> /\ waits' = <<>>
    /\ pc' = "extract" /\ attempt' = 1
    /\ UNCHANGED <<ui, tails, uber, faults, inRecovery, err, session, data, answers, images, opened, rankReply>>

\* extractProducts, the supervised operation on the cards the page shows:
\* the products, or the Error it throws
extractOperation(cards) ==
    IF Len(cards) = 0 THEN [ok |-> FALSE, error |-> ErrNoCards, products |-> <<>>]
    ELSE IF Len(extractCards(cards)) = 0
    THEN [ok |-> FALSE, error |-> ErrNoneExtracted, products |-> <<>>]
    ELSE [ok |-> TRUE, error |-> <<>>, products |-> extractCards(cards)]

\* ExtractAttempt, had neither extractProducts nor run() looked at the
\* number of products
ExtractAttempt_noCheck ==
    /\ pc = "extract"
    /\ ev' = <<"page">>
    /\ \E cards \in Pages : products' = extractCards(cards)
    /\ pc' = "selectBestProducts" /\ attempt' = 1
    /\ UNCHANGED <<ui, tails, uber, faults, err, msgs, waits, inRecovery, session, userPrompt,
                   searchQuery, selectedProducts, labels, selectedOption,
                   selectedProductIndex, selectedProduct, originalSelection, clickTarget,
                   calls, answers, images, opened, rankReply>>

\* One attempt of the extraction, and on success run()'s check of the
\* result for emptiness.
ExtractAttempt ==
    /\ pc = "extract"
    /\ ev' = <<"page">>
    /\ \E cards \in Pages :
         LET x == extractOperation(cards)
             r == retryWithBackoff(OpExtract, maxRetries, x.error)
         IN IF x.ok
            THEN /\ products' = x.products
                 /\ attempt' = 1
                 /\ IF Len(x.products) = 0
                    THEN msgs' = Append(msgs, MsgNoProductsFound) /\ pc' = "finally"
                    ELSE msgs' = msgs /\ pc' = "selectBestProducts"
                 /\ UNCHANGED <<faults, err, waits>>
            ELSE /\ Fault
                 /\ msgs' = msgs \o r.msgs
                 /\ waits' = waits \o r.waits
                 /\ UNCHANGED products
                 /\ IF r.again
                    THEN attempt' = attempt + 1 /\ UNCHANGED <<pc, err>>
                    ELSE err' = r.error /\ pc' = catchOf /\ UNCHANGED attempt
    /\ UNCHANGED <<ui, tails, uber, inRecovery, session, userPrompt, searchQuery, selectedProducts, labels,
                   selectedOption, selectedProductIndex, selectedProduct, originalSelection,
                   clickTarget, calls, answers, images, opened, rankReply>>

SelectBestProducts ==
    /\ pc = "selectBestProducts"
    /\ Enter("selectBestProducts")
    /\ ev' = <<>>
    /\ msgs' = <<MsgPicking(Len(products))>> /\ waits' = <<>>
    /\ attempt' = 1
    /\ IF Len(products) = 0
       THEN selectedProducts' = <<>> /\ pc' = "labels"
       ELSE pc' = "rank" /\ UNCHANGED selectedProducts
    /\ UNCHANGED <<ui, tails, uber, faults, inRecovery, err, session, userPrompt, searchQuery, products, labels,
                   selectedOption, selectedProductIndex, selectedProduct, originalSelection,
                   clickTarget, answers, images, opened, rankReply>>

\* One attempt of the ranking call; after the last failed one the catch
\* block of selectBestProducts falls back.
RankAttempt ==
    /\ pc = "rank"
    /\ ev' = <<"llm">>
    /\ \/ \E c \in RankContents :
            /\ selectedProducts' = rankFromReply(products, c)
            /\ rankReply' = Some(c)
            /\ pc' = "labels" /\ attempt' = 1
            /\ UNCHANGED <<faults, msgs, waits>>
       \/ \E e \in CompletionErrors :
            LET r == retryWithBackoff(OpRank, maxRetries, e)
            IN /\ Fault
               /\ UNCHANGED rankReply
               /\ waits' = waits \o r.waits
               /\ IF r.again
                  THEN /\ msgs' = msgs \o r.msgs
                       /\ attempt' = attempt + 1
                       /\ UNCHANGED <<pc, selectedProducts>>
                  ELSE /\ msgs' = msgs \o r.msgs \o <<MsgRankFallback>>
                       /\ selectedProducts' = rankFallback(products)
                       /\ pc' = "labels" /\ attempt' = 1
    /\ UNCHANGED <<ui, tails, uber, inRecovery, err, session, userPrompt, searchQuery, products, labels,
                   selectedOption, selectedProductIndex, selectedProduct, originalSelection,
                   clickTarget, calls, answers, images, opened>>

\* One attempt of turnSelectedProductsIntoReadableNames, and on success
\* run()'s check that something was selected.
LabelsAttempt ==
    /\ pc = "labels"
    /\ EnterOnFirst("turnSelectedProductsIntoReadableNames")
    /\ ev' = <<"llm">>
    /\ \/ \E c \in LabelContents :
            /\ labels' = labelsFromReply(c)
            /\ attempt' = 1
            /\ IF Len(selectedProducts) > 0
               THEN msgs' = Win(msgs) /\ pc' = "sendOptions"
               ELSE msgs' = Append(Win(msgs), MsgNoneSelected) /\ pc' = "finally"
            /\ waits' = Win(waits)
            /\ UNCHANGED <<faults, err>>
       \/ \E e \in CompletionErrors :
            LET r == retryWithBackoff(OpLabels, maxRetries, e)
            IN /\ Fault
               /\ msgs' = Win(msgs) \o r.msgs
               /\ waits' = Win(waits) \o r.waits
               /\ UNCHANGED labels
               /\ IF r.again
                  THEN attempt' = attempt + 1 /\ UNCHANGED <<pc, err>>
                  ELSE err' = r.error /\ pc' = catchOf /\ UNCHANGED attempt
    /\ UNCHANGED <<ui, tails, uber, inRecovery, session, userPrompt, searchQuery, products, selectedProducts,
                   selectedOption, selectedProductIndex, selectedProduct, originalSelection,
                   clickTarget, answers, images, opened, rankReply>>

\* SendOptions, had run() gone on without awaiting the promise
SendOptions_noWait ==
    /\ pc = "sendOptions"
    /\ Enter("sendOptions")
    /\ ev' = <<"prompt">>
    /\ msgs' = <<>> /\ waits' = <<>>
    /\ pc' = "getSelectedProduct" /\ attempt' = 1
    /\ isTakingInput' = TRUE /\ isRespondingToOptions' = TRUE
    /\ pendingOptionsResolve' = TRUE
    /\ UNCHANGED <<isProcessing, tails, uber, faults, inRecovery, err, session, data, answers, images,
                   opened, rankReply>>

\* callback.sendOptions(labels): handleOptionsResponse shows the prompt,
\* takes input and keeps the resolve of the promise it returns; run()
\* suspends on the promise
SendOptions ==
    /\ pc = "sendOptions"
    /\ Enter("sendOptions")
    /\ ev' = <<"prompt">>
    /\ msgs' = <<>> /\ waits' = <<>>
    /\ pc' = "awaitOptions"
    /\ isTakingInput' = TRUE /\ isRespondingToOptions' = TRUE
    /\ pendingOptionsResolve' = TRUE
    /\ UNCHANGED <<isProcessing, tails, uber, attempt, faults, inRecovery, err, session, data, answers,
                   images, opened, rankReply>>

\* InputArea.handleSubmit: the text handed to onSubmit for a typed line
onSubmitText(input) ==
    IF trim(input) # <<>> /\ isTakingInput THEN Some(trim(input)) ELSE None

\* answersPrompt, had handleMessageSubmit not looked at the pending prompt
answersPrompt_never == FALSE

\* handleMessageSubmit: the submission is the answer to the pending prompt
answersPrompt == isRespondingToOptions /\ pendingOptionsResolve

\* handleMessageSubmit: what the pending promise is resolved with
resolvedValue(content) == content

\* handleMessageSubmit(content) answering the prompt: the promise is
\* resolved and the run waiting on it goes on
ResolveOptions(content) ==
    /\ answersPrompt
    /\ pc = "awaitOptions"
    /\ isTakingInput' = FALSE /\ isRespondingToOptions' = FALSE
    /\ pendingOptionsResolve' = FALSE
    /\ selectedOption' = resolvedValue(content)
    /\ ev' = <<"answer">>
    /\ answers' = answers + 1
    /\ pc' = "getSelectedProduct" /\ attempt' = 1
    /\ UNCHANGED <<isProcessing, tails, uber, faults, inRecovery, err, session, userPrompt,
                   searchQuery, products, selectedProducts, labels, selectedProductIndex,
                   selectedProduct, originalSelection, clickTarget, msgs, waits, calls,
                   images, opened, rankReply>>

\* handleMessageSubmit(content) starting a run: callShopapp makes a new
\* agent and calls its run().  A run that has not returned goes on beside
\* the new one.
StartRun(content) ==
    /\ ~answersPrompt
    /\ isProcessing' = TRUE /\ isTakingInput' = FALSE
    /\ UNCHANGED <<isRespondingToOptions, pendingOptionsResolve, uber>>
    /\ IF pc \in {"idle", "returned"}
       THEN UNCHANGED tails
       ELSE tails < MaxTails /\ tails' = tails + 1
    /\ pc' = "initialize"
    /\ userPrompt' = content
    /\ attempt' = 1 /\ faults' = 0 /\ inRecovery' = FALSE /\ err' = <<>>
    /\ browser' = "none" /\ url' = "none"
    /\ searchQuery' = <<>> /\ products' = <<>> /\ selectedProducts' = <<>>
    /\ labels' = <<>> /\ selectedOption' = <<>> /\ selectedProductIndex' = NaN
    /\ selectedProduct' = None /\ originalSelection' = NoSelection
    /\ clickTarget' = NoProduct
    /\ msgs' = <<>> /\ waits' = <<>> /\ ev' = <<>>
    /\ calls' = [f \in Functions |-> 0]
    /\ answers' = 0 /\ images' = 0 /\ opened' = <<>> /\ rankReply' = None

\* the user submits the first request
SubmitRequest ==
    /\ pc = "idle"
    /\ \E input \in userPrompts :
         /\ onSubmitText(input).some
         /\ StartRun(onSubmitText(input).v)

\* the user submits a line while the prompt is shown
HumanAnswer ==
    \E input \in userPrompts \cup SelectionResponses :
        /\ onSubmitText(input).some
        /\ ResolveOptions(onSubmitText(input).v)

\* the user submits a further request
SubmitAgain ==
    /\ pc # "idle"
    /\ \E input \in userPrompts :
         /\ onSubmitText(input).some
         /\ StartRun(onSubmitText(input).v)

\* an earlier run comes to the end of run(): its browser is closed
CloseTail ==
    /\ tails > 0
    /\ tails' = tails - 1
    /\ UNCHANGED <<ctl, session, data, obs, ui, uber>>

\* One attempt of getSelectedProduct; after the last failed one its catch
\* block returns 1.
GetSelectedProduct ==
    /\ pc = "getSelectedProduct"
    /\ EnterOnFirst("getSelectedProduct")
    /\ ev' = <<"llm">>
    /\ \/ \E reply \in IndexContents :
            /\ selectedProductIndex' = indexFromReply(reply)
            /\ pc' = "commit" /\ attempt' = 1
            /\ msgs' = Win(msgs) /\ waits' = Win(waits)
            /\ UNCHANGED faults
       \/ \E e \in CompletionErrors :
            LET r == retryWithBackoff(OpIndex, maxRetries, e)
            IN /\ Fault
               /\ waits' = Win(waits) \o r.waits
               /\ IF r.again
                  THEN /\ msgs' = Win(msgs) \o r.msgs
                       /\ attempt' = attempt + 1
                       /\ UNCHANGED <<pc, selectedProductIndex>>
                  ELSE /\ msgs' = Win(msgs) \o r.msgs \o <<MsgIndexFallback>>
                       /\ selectedProductIndex' = Num(1)
                       /\ pc' = "commit" /\ attempt' = 1
    /\ UNCHANGED <<ui, tails, uber, inRecovery, err, session, userPrompt, searchQuery, products,
                   selectedProducts, labels, selectedOption, selectedProduct,
                   originalSelection, clickTarget, answers, images, opened, rankReply>>

\* i - 1 on JavaScript numbers
minusOne(i) == IF i.nan THEN NaN ELSE Num(i.n - 1)

\* chosenProduct without the replacement by the first entry
chosenProduct_noFallback(sel, idx) == At(sel, minusOne(idx))

\* chosenProduct, had the index been used without the - 1
chosenProduct_offByOne(sel, idx) ==
    IF At(sel, idx).some THEN At(sel, idx) ELSE At(sel, Num(0))

\* run(): selectedProducts[selectedProductIndex - 1], replaced by
\* selectedProducts[0] when it is undefined
chosenProduct(sel, idx) ==
    LET byIndex == At(sel, minusOne(idx))
    IN IF byIndex.some THEN byIndex ELSE At(sel, Num(0))

\* run() from the resolved index to the call of clickProduct.  Its else
\* branch ("Selected product not found") cannot be taken: selectedProduct
\* is defined once the two checks before it have passed.
Commit ==
    /\ pc = "commit"
    /\ ev' = <<>>
    /\ msgs' = Append(msgs, MsgUserSelected)
    /\ LET chosen == chosenProduct(selectedProducts, selectedProductIndex)
       IN /\ selectedProduct' = chosen
          /\ IF ~chosen.some
             THEN /\ err' = ErrNoSelection /\ pc' = "catch"
                  /\ UNCHANGED <<originalSelection, clickTarget, attempt>>
             ELSE /\ originalSelection' =
                        [set |-> TRUE, selectedProduct |-> chosen.v,
                         selectedOption |-> selectedOption,
                         selectedProductIndex |-> selectedProductIndex]
                  /\ clickTarget' = chosen.v
                  /\ pc' = "clickProduct" /\ attempt' = 1
                  /\ UNCHANGED err
    /\ UNCHANGED <<ui, tails, uber, faults, inRecovery, session, userPrompt, searchQuery, products,
                   selectedProducts, labels, selectedOption, selectedProductIndex,
                   waits, calls, answers, images, opened, rankReply>>

\* clickProduct: the trimmed title of the first card the loop clicks
clickedTitle(cards, product) ==
    LET hit(i) == /\ ~cards[i].err
                  /\ cards[i].title.some
                  /\ cards[i].title.v # <<>>
                  /\ trim(cards[i].title.v) = product.title
                  /\ cards[i].link.some
        first == CHOOSE i \in DOMAIN cards : hit(i) /\ \A j \in 1..(i - 1) : ~hit(j)
    IN trim(cards[first].title.v)

\* One attempt of clickProduct on the cards the page shows; nav is where
\* the click leads ("error": the click itself throws).
ClickProduct ==
    /\ pc = "clickProduct"
    /\ EnterOnFirst("clickProduct")
    /\ ev' = <<"page">>
    /\ \E cards \in Pages, nav \in {"product", "other", "error"} :
         IF clickable(cards, clickTarget) /\ nav # "error"
         THEN /\ opened' = Append(opened, clickedTitle(cards, clickTarget))
              /\ url' = nav
              /\ pc' = "clickBuyNow" /\ attempt' = 1
              /\ msgs' = Win(msgs) /\ waits' = Win(waits)
              /\ UNCHANGED <<faults, err>>
         ELSE LET r == retryWithBackoff(OpClick(clickTarget), maxRetries,
                                        ErrNotFound(clickTarget))
              IN /\ Fault
                 /\ msgs' = Win(msgs) \o r.msgs
                 /\ waits' = Win(waits) \o r.waits
                 /\ UNCHANGED <<opened, url>>
                 /\ IF r.again
                    THEN attempt' = attempt + 1 /\ UNCHANGED <<pc, err>>
                    ELSE err' = r.error /\ pc' = catchOf /\ UNCHANGED attempt
    /\ UNCHANGED <<ui, tails, uber, inRecovery, browser, data, answers, images, rankReply>>

ClickBuyNow ==
    /\ pc = "clickBuyNow"
    /\ Enter("clickBuyNow")
    /\ ev' = <<>>
    /\ msgs' = <<MsgHeading>> /\ waits' = <<>>
    /\ pc' = "buyNow" /\ attempt' = 1
    /\ UNCHANGED <<ui, tails, uber, faults, inRecovery, err, session, data, answers, images, opened, rankReply>>

\* BuyNowAttempt, had the screenshot been taken and sent before the button
\* is looked for
BuyNowAttempt_shotFirst ==
    /\ pc = "buyNow"
    /\ ev' = <<"page">>
    /\ \E outcome \in {"noButton", "clickFails", "shotOk", "shotFails"} :
         LET failed == url # "product" \/ outcome \in {"noButton", "clickFails"}
             emsg == IF url # "product" THEN ErrNotProductPage(url)
                     ELSE IF outcome = "noButton" THEN ErrNoButton ELSE PageError
             r == retryWithBackoff(OpBuyNow, BuyNowMaxRetries, emsg)
         IN IF failed
            THEN /\ IF url = "product" THEN Fault ELSE UNCHANGED faults
                 /\ msgs' = msgs \o r.msgs
                 /\ waits' = waits \o r.waits
                 /\ UNCHANGED url
                 /\ IF url = "product"
                    THEN /\ images' = images + 1
                         /\ isProcessing' = FALSE /\ isTakingInput' = TRUE
                    ELSE UNCHANGED <<images, isProcessing, isTakingInput>>
                 /\ IF r.again
                    THEN attempt' = attempt + 1 /\ UNCHANGED <<pc, err, inRecovery>>
                    ELSE /\ err' = r.error /\ pc' = buyNowCatchOf(r.error)
                         /\ UNCHANGED <<attempt, inRecovery>>
            ELSE /\ url' = "checkout"
                 /\ IF outcome = "shotOk"
                    THEN /\ msgs' = msgs \o <<MsgCheckoutReached, MsgOrderSetUp>>
                         /\ images' = images + 1
                         /\ isProcessing' = FALSE /\ isTakingInput' = TRUE
                         /\ UNCHANGED faults
                    ELSE Fault /\ UNCHANGED <<msgs, images, isProcessing, isTakingInput>>
                 /\ pc' = "finally" /\ inRecovery' = FALSE
                 /\ UNCHANGED <<attempt, err, waits>>
    /\ UNCHANGED <<isRespondingToOptions, pendingOptionsResolve, tails, uber, browser, data, calls,
                   answers, opened, rankReply>>

\* One attempt of the operation of clickBuyNow.  Off a product page it
\* throws at once.  On a product page the button is missing, or the click /
\* load throws, or the button is clicked and takeScreenshot sends the image
\* or swallows the screenshot's error.
BuyNowAttempt ==
    /\ pc = "buyNow"
    /\ ev' = <<"page">>
    /\ \E outcome \in {"noButton", "clickFails", "shotOk", "shotFails"} :
         LET failed == url # "product" \/ outcome \in {"noButton", "clickFails"}
             emsg == IF url # "product" THEN ErrNotProductPage(url)
                     ELSE IF outcome = "noButton" THEN ErrNoButton ELSE PageError
             r == retryWithBackoff(OpBuyNow, BuyNowMaxRetries, emsg)
         IN IF failed
            THEN /\ IF url = "product" THEN Fault ELSE UNCHANGED faults
                 /\ msgs' = msgs \o r.msgs
                 /\ waits' = waits \o r.waits
                 /\ UNCHANGED <<url, images, isProcessing, isTakingInput>>
                 /\ IF r.again
                    THEN attempt' = attempt + 1 /\ UNCHANGED <<pc, err, inRecovery>>
                    ELSE /\ err' = r.error /\ pc' = buyNowCatchOf(r.error)
                         /\ UNCHANGED <<attempt, inRecovery>>
            ELSE /\ url' = "checkout"
                 /\ IF outcome = "shotOk"
                    THEN /\ msgs' = msgs \o <<MsgCheckoutReached, MsgOrderSetUp>>
                         /\ images' = images + 1
                         /\ isProcessing' = FALSE /\ isTakingInput' = TRUE
                         /\ UNCHANGED faults
                    ELSE Fault /\ UNCHANGED <<msgs, images, isProcessing, isTakingInput>>
                 /\ pc' = "finally" /\ inRecovery' = FALSE
                 /\ UNCHANGED <<attempt, err, waits>>
    /\ UNCHANGED <<isRespondingToOptions, pendingOptionsResolve, tails, uber, browser, data, calls,
                   answers, opened, rankReply>>

\* recoveryTarget, had the recovery taken the head of the ranked list
recoveryTarget_first == selectedProducts[1]

\* the product retryWithOriginalSelection passes to clickProduct
recoveryTarget == originalSelection.selectedProduct

\* retryWithOriginalSelection up to its call of clickProduct
RetryWithOriginalSelection ==
    /\ pc = "retryWithOriginalSelection"
    /\ Enter("retryWithOriginalSelection")
    /\ ev' = <<"page">>
    /\ waits' = <<>>
    /\ inRecovery' = TRUE
    /\ \/ /\ url' = "results"
          /\ msgs' = <<MsgBuyNowFailed, MsgRetrying(originalSelection.selectedProduct)>>
          /\ clickTarget' = recoveryTarget
          /\ pc' = "clickProduct" /\ attempt' = 1
          /\ UNCHANGED <<faults, err>>
       \/ /\ Fault
          /\ msgs' = <<MsgBuyNowFailed>>
          /\ err' = PageError /\ pc' = "retryCatch"
          /\ UNCHANGED <<url, clickTarget, attempt>>
    /\ UNCHANGED <<ui, tails, uber, browser, userPrompt, searchQuery, products, selectedProducts, labels,
                   selectedOption, selectedProductIndex, selectedProduct, originalSelection,
                   answers, images, opened, rankReply>>

\* retryWithOriginalSelection, the catch block: report and rethrow
RetryCatch ==
    /\ pc = "retryCatch"
    /\ ev' = <<>>
    /\ msgs' = Append(msgs, MsgRetryFailed(err))
    /\ pc' = "catch" /\ inRecovery' = FALSE
    /\ UNCHANGED <<ui, tails, uber, attempt, faults, err, session, data, waits, calls, answers, images, opened,
                   rankReply>>

\* Catch, had the browser been closed at the end of the try block and not
\* in a finally block: after an Error run() returns from its catch
Catch_noFinally ==
    /\ pc = "catch"
    /\ ev' = <<>>
    /\ msgs' = Append(msgs, MsgCritical(err))
    /\ pc' = "returned"
    /\ UNCHANGED <<ui, tails, uber, attempt, faults, inRecovery, err, session, data, waits, calls, answers,
                   images, opened, rankReply>>

\* run(), the catch block
Catch ==
    /\ pc = "catch"
    /\ ev' = <<>>
    /\ msgs' = Append(msgs, MsgCritical(err))
    /\ pc' = "finally"
    /\ UNCHANGED <<ui, tails, uber, attempt, faults, inRecovery, err, session, data, waits, calls, answers,
                   images, opened, rankReply>>

\* Finally, had the browser been left open
Finally_leak ==
    /\ pc = "finally"
    /\ ev' = <<>>
    /\ pc' = "returned"
    /\ UNCHANGED <<ui, tails, uber, attempt, faults, inRecovery, err, session, data, msgs, waits, calls,
                   answers, images, opened, rankReply>>

\* run(), the finally block
Finally ==
    /\ pc = "finally"
    /\ IF browser = "open"
       THEN browser' = "closed" /\ Enter("close") /\ ev' = <<"page">>
       ELSE UNCHANGED <<browser, calls>> /\ ev' = <<>>
    /\ pc' = "returned"
    /\ UNCHANGED <<ui, tails, uber, attempt, faults, inRecovery, err, url, data, msgs, waits, answers, images,
                   opened, rankReply>>

Next ==
    \/ SubmitRequest
    \/ Initialize
    \/ GenerateSearchQuery
    \/ NavigateToShopApp
    \/ PerformSearch
    \/ SearchAttempt
    \/ ExtractProducts
    \/ ExtractAttempt
    \/ SelectBestProducts
    \/ RankAttempt
    \/ LabelsAttempt
    \/ SendOptions
    \/ HumanAnswer
    \/ GetSelectedProduct
    \/ Commit
    \/ ClickProduct
    \/ ClickBuyNow
    \/ BuyNowAttempt
    \/ RetryWithOriginalSelection
    \/ RetryCatch
    \/ Catch
    \/ Finally

Spec == Init /\ [][Next]_vars

\* a step of run() itself: a call of the page, of the completion service
\* or of the channel returns or fails.  At "awaitOptions" run() is
\* suspended on the promise only the user's answer resolves.
RunStep == pc \notin {"idle", "awaitOptions"} /\ Next

\* Every call run() has made eventually returns or fails; the user is
\* under no obligation.
SpecLive == Init /\ [][Next]_vars /\ WF_vars(RunStep)

\* The user goes on submitting requests.
NextUI ==
    \/ Next
    \/ SubmitAgain
    \/ CloseTail

SpecUI == Init /\ [][NextUI]_vars

(* --------------------- UberEatsAgent.orderMeal ------------------------ *)
\* a || b on strings: the empty (or missing) string is falsy
OrElse(a, b) == IF a # "" THEN a ELSE b

\* What decideMeal may return: cuisine_type and restaurant_preferences.
MealDecisions ==
    {[cuisine_type |-> c, restaurant_preferences |-> r] :
        c \in {"", "Italian"}, r \in {"", "Pizza Place"}}

\* What analyzeMenuItems may return as selected_items (None: undefined).
SelectedItemLists == {None, Some(<<>>), Some(<<"Pizza">>), Some(<<"Pizza", "Salad">>)}

\* a step of orderMeal throws: control goes to the catch block, which
\* rethrows, and then to the finally block
UberThrow(e) == uber' = [uber EXCEPT !.thrown = e, !.pc = "finally"]

UberRest == UNCHANGED <<ctl, session, data, obs, ui, tails>>

\* orderMeal(prompt, keepBrowserOpen) is called
UberOrderMeal ==
    /\ uber.pc = "idle"
    /\ \E keep \in BOOLEAN :
         uber' = [uber EXCEPT !.keepBrowserOpen = keep, !.pc = "initialize"]
    /\ UberRest

\* initialize: the launch fails, or a step after it fails, or all is set up
UberInitialize ==
    /\ uber.pc = "initialize"
    /\ \/ UberThrow("Failed to launch the browser process")
       \/ uber' = [uber EXCEPT !.browser = "open", !.thrown = "Navigation failed",
                               !.pc = "finally"]
       \/ uber' = [uber EXCEPT !.browser = "open", !.pc = "isLoggedIn"]
    /\ UberRest

\* isLoggedIn returns false when anything in it throws
UberIsLoggedIn ==
    /\ uber.pc = "isLoggedIn"
    /\ \E b \in BOOLEAN :
         uber' = [uber EXCEPT !.isAuthenticated = b, !.pc = "decideMeal"]
    /\ UberRest

UberDecideMeal ==
    /\ uber.pc = "decideMeal"
    /\ \/ UberThrow("API Error")
       \/ \E d \in MealDecisions :
            uber' = [uber EXCEPT
                       !.searchQuery = OrElse(d.cuisine_type,
                                              OrElse(d.restaurant_preferences, "food")),
                       !.pc = "navigateToUberEats"]
    /\ UberRest

\* navigateToUberEats, setDeliveryAddress, searchForFood, selectRestaurant:
\* each returns or throws
UberPageStep(at, e, then) ==
    /\ uber.pc = at
    /\ \/ UberThrow(e)
       \/ uber' = [uber EXCEPT !.pc = then]
    /\ UberRest

UberNavigate == UberPageStep("navigateToUberEats", "Navigation timeout", "setDeliveryAddress")

UberSetDeliveryAddress ==
    UberPageStep("setDeliveryAddress", "Navigation timeout", "searchForFood")

UberSearchForFood ==
    UberPageStep("searchForFood", "Could not find search input", "selectRestaurant")

UberSelectRestaurant ==
    UberPageStep("selectRestaurant", "No restaurants found", "extractMenuItems")

UberExtractMenuItems ==
    /\ uber.pc = "extractMenuItems"
    /\ \/ UberThrow("Execution context was destroyed")
       \/ \E n \in 0..2 : uber' = [uber EXCEPT !.menuItems = n, !.pc = "analyzeMenuItems"]
    /\ UberRest

\* analyzeMenuItems; itemsToAdd is (selected_items || []).slice(0, 1)
UberAnalyzeMenuItems ==
    /\ uber.pc = "analyzeMenuItems"
    /\ \/ UberThrow("API Error")
       \/ \E sel \in SelectedItemLists :
            uber' = [uber EXCEPT
                       !.itemsToAdd = slice(IF sel.some THEN sel.v ELSE <<>>, 1),
                       !.pc = "addItemToCart"]
    /\ UberRest

\* the loop over itemsToAdd: addItemToCart adds the item or logs that it
\* could not, and never throws; then the result is built
UberAddItems ==
    /\ uber.pc = "addItemToCart"
    /\ \E added \in BOOLEAN :
         uber' = [uber EXCEPT !.cart = IF added THEN uber.itemsToAdd ELSE <<>>,
                             !.pc = "finally"]
    /\ UberRest

\* orderMeal, the finally block, after which the promise settles
UberFinally ==
    /\ uber.pc = "finally"
    /\ uber' = [uber EXCEPT
                  !.browser = IF ~uber.keepBrowserOpen /\ uber.browser = "open"
                              THEN "closed" ELSE @,
                  !.result = IF uber.thrown # "" THEN "rejected" ELSE "resolved",
                  !.pc = "settled"]
    /\ UberRest

\* close(), called by the user of the agent once orderMeal has settled
UberClose ==
    /\ uber.pc = "settled"
    /\ uber.browser = "open"
    /\ uber' = [uber EXCEPT !.browser = "closed"]
    /\ UberRest

NextUber ==
    \/ UberOrderMeal
    \/ UberInitialize
    \/ UberIsLoggedIn
    \/ UberDecideMeal
    \/ UberNavigate
    \/ UberSetDeliveryAddress
    \/ UberSearchForFood
    \/ UberSelectRestaurant
    \/ UberExtractMenuItems
    \/ UberAnalyzeMenuItems
    \/ UberAddItems
    \/ UberFinally
    \/ UberClose

SpecUber == Init /\ [][NextUber]_vars

TypeOK ==
    /\ pc \in {"idle", "initialize", "generateSearchQuery", "navigateToShopApp", "performSearch",
                "search", "extractProducts", "extract", "selectBestProducts", "rank",
                "labels", "sendOptions", "awaitOptions", "getSelectedProduct", "commit",
                "clickProduct", "clickBuyNow", "buyNow", "retryWithOriginalSelection",
                "retryCatch", "catch", "finally", "returned"}
    /\ attempt \in 1..maxRetries
    /\ faults \in 0..MaxFaults
    /\ browser \in {"none", "open", "closed"}
    /\ images \in Nat
    /\ ui \in BOOLEAN \X BOOLEAN \X BOOLEAN \X BOOLEAN
    /\ tails \in 0..MaxTails
    /\ (pendingOptionsResolve => pc = "awaitOptions")

(* ------------------------------ claims -------------------------------- *)
Count(seq, x) == Cardinality({i \in DOMAIN seq : seq[i] = x})

Min(a, b) == IF a < b THEN a ELSE b

\* the recovery has reported its failure
RecoveryFailed == \E i \in DOMAIN msgs : startsWith(msgs[i], <<" Retry failed: ">>)

\* the last attempt of the named three-attempt operation has failed
Exhausted(opName) ==
    \E i \in DOMAIN msgs :
        startsWith(msgs[i], <<" ", opName, " failed (attempt ", "3", "/", "3", "): ">>)

\* C1: once the ChosenItem is committed, no step of the run issues a
\* selection prompt, receives an answer, ranks or calls the completion
\* service again; every card opened from then on, and the target handed to
\* clickProduct (by the main flow and by the recovery), carries the
\* ChosenItem's title.
C1_RecoveryReplaysChoice ==
    [][originalSelection.set =>
        /\ calls'["sendOptions"] = calls["sendOptions"]
        /\ calls'["selectBestProducts"] = calls["selectBestProducts"]
        /\ answers' = answers
        /\ \A i \in DOMAIN ev' : ev'[i] \notin {"llm", "prompt", "answer"}
        /\ (opened' # opened =>
              opened' = Append(opened, originalSelection.selectedProduct.title))
        /\ (pc' = "clickProduct" =>
              clickTarget'.title = originalSelection.selectedProduct.title)
        /\ originalSelection' = originalSelection]_vars

WitC1 ==
    /\ inRecovery
    /\ Len(opened) = 2
    /\ opened[2] = originalSelection.selectedProduct.title
    /\ opened[2] # selectedProducts[1].title

\* C2: retryWithOriginalSelection runs at most once and clickBuyNow is
\* entered at most twice, the second time only inside the recovery; once the
\* recovery has failed the run is in its failure path (catch, finally,
\* returned), where nothing is opened or checked out, and it ends with the
\* critical-error report.
C2_AtMostOneRecovery ==
    /\ calls["retryWithOriginalSelection"] <= 1
    /\ calls["clickBuyNow"] <= 2
    /\ calls["clickProduct"] <= 2
    /\ (calls["clickBuyNow"] = 2 => calls["retryWithOriginalSelection"] = 1)
    /\ (RecoveryFailed => pc \in {"catch", "finally", "returned"})
    /\ (RecoveryFailed /\ pc \in {"finally", "returned"} =>
          startsWith(msgs[Len(msgs)], <<"Critical error in agent execution: ">>))

WitC2 ==
    /\ pc = "returned"
    /\ calls["clickBuyNow"] = 2
    /\ RecoveryFailed
    /\ startsWith(err, <<"Clicking buy now button">>)

\* C3: when run() has returned, a browser that initialize() launched is
\* closed.
C3_BrowserClosedOnReturn == pc = "returned" => browser \in {"none", "closed"}

WitC3 == pc = "returned" /\ browser = "closed" /\ RecoveryFailed

\* C4: sendOptions is called at most once; while the prompt is unanswered
\* run() is suspended, and the only step taken is the human's answer, which
\* makes no page or completion call; clickProduct and clickBuyNow are called
\* only after the answer.
C4_PromptOnceAndAwaited ==
    [][/\ calls'["sendOptions"] <= 1
       /\ (calls["sendOptions"] > answers => pc = "awaitOptions")
       /\ (pc = "awaitOptions" =>
             /\ ev' = <<"answer">>
             /\ answers' = answers + 1
             /\ UNCHANGED <<session, opened, images, calls>>)
       /\ (calls'["clickProduct"] + calls'["clickBuyNow"] > 0 => answers' = 1)]_vars

WitC4 == pc = "buyNow" /\ calls["sendOptions"] = 1 /\ answers = 1

\* the resolved index does not name an entry of the RankedSelection
IndexInconclusive ==
    \/ selectedProductIndex.nan
    \/ selectedProductIndex.n < 1
    \/ selectedProductIndex.n > Len(selectedProducts)

\* C5: once the answer to the prompt has been resolved, run() holds exactly
\* one ChosenItem, it is an entry of the RankedSelection, and it is the first
\* entry when the resolved index is inconclusive or the completion service
\* failed on every attempt.
C5_ExactlyOneChosenItem ==
    (answers = 1 /\ pc \notin {"getSelectedProduct", "commit"}) =>
        /\ originalSelection.set
        /\ selectedProduct = Some(originalSelection.selectedProduct)
        /\ \E i \in DOMAIN selectedProducts :
              selectedProducts[i] = originalSelection.selectedProduct
        /\ (IndexInconclusive => originalSelection.selectedProduct = selectedProducts[1])
        /\ (Exhausted("Getting selected product") =>
              originalSelection.selectedProduct = selectedProducts[1])

WitC5 ==
    /\ originalSelection.set
    /\ selectedProductIndex.nan
    /\ Len(selectedProducts) >= 2
    /\ pc = "clickProduct"

\* C6 (as claimed): the index getSelectedProduct returns is an integer in
\* 1..N, N being the length of the RankedSelection.
CexC6_IndexInRange ==
    pc = "commit" =>
        /\ ~selectedProductIndex.nan
        /\ selectedProductIndex.n >= 1
        /\ selectedProductIndex.n <= Len(selectedProducts)

\* C7: when the resolved index k is in 1..N, the ChosenItem is the k-th
\* entry of the RankedSelection, clickProduct is called with it, and the
\* first card opened carries its title.
C7_KthEntryOpened ==
    (originalSelection.set /\ ~IndexInconclusive) =>
        /\ originalSelection.selectedProduct = selectedProducts[selectedProductIndex.n]
        /\ (pc = "clickProduct" /\ ~inRecovery =>
              clickTarget = selectedProducts[selectedProductIndex.n])
        /\ (pc = "clickProduct" \/ calls["clickProduct"] >= 1)
        /\ (opened # <<>> => opened[1] = selectedProducts[selectedProductIndex.n].title)

WitC7 ==
    /\ opened # <<>>
    /\ selectedProductIndex = Num(2)
    /\ Len(selectedProducts) >= 2
    /\ selectedProducts[2] # selectedProducts[1]

\* C8: after the last attempt of the extraction has failed, the run is in
\* its failure path with an Error naming "Product extraction", it reports
\* that Error as the critical error, and no later stage has been entered.
C8_ExtractionFailureIsFatal ==
    Exhausted("Product extraction") =>
        /\ pc \in {"catch", "finally", "returned"}
        /\ startsWith(err, <<"Product extraction", " failed after ">>)
        /\ (pc \in {"finally", "returned"} =>
              /\ startsWith(msgs[Len(msgs)], <<"Critical error in agent execution: ">>)
              /\ includes(msgs[Len(msgs)], <<"Product extraction">>))
        /\ \A f \in {"selectBestProducts", "turnSelectedProductsIntoReadableNames",
                     "sendOptions", "getSelectedProduct", "clickProduct", "clickBuyNow",
                     "retryWithOriginalSelection"} : calls[f] = 0
        /\ products = <<>>

WitC8 == pc = "returned" /\ Exhausted("Product extraction")

\* the lines of the ranking reply that match some retrieved candidate
MatchedLines ==
    LET lines == selectedTitlesOf(rankReply.v)
    IN {i \in DOMAIN lines : \E j \in DOMAIN products : titleMatches(products[j], lines[i])}

\* C9: the RankedSelection has at most 5 entries, each with the title and
\* link of a retrieved candidate; when it comes from a reply it has no more
\* entries than the reply has matching lines, and each entry matches a line
\* of the reply.
C9_RankedSelectionFromInput ==
    /\ Len(selectedProducts) <= 5
    /\ \A i \in DOMAIN selectedProducts : \E j \in DOMAIN products :
          /\ selectedProducts[i].title = products[j].title
          /\ selectedProducts[i].href = products[j].href
    /\ (rankReply.some =>
          /\ Len(selectedProducts) <= Cardinality(MatchedLines)
          /\ \A i \in DOMAIN selectedProducts : \E k \in MatchedLines :
                titleMatches(selectedProducts[i], selectedTitlesOf(rankReply.v)[k]))

WitC9 ==
    /\ rankReply.some
    /\ Len(selectedTitlesOf(rankReply.v)) = 6
    /\ Len(products) = 6
    /\ Len(selectedProducts) = 5

\* C10: after the last attempt of the ranking call has failed, the
\* RankedSelection is the first min(5, n) retrieved candidates in order, the
\* fallback warning has been sent exactly once, and the run has gone on to
\* the labelling stage with no Error raised.
C10_RankFallbackFirstFive ==
    Exhausted("Selecting best products") =>
        /\ selectedProducts = SubSeq(products, 1, Min(5, Len(products)))
        /\ Count(msgs, <<"Failed to select best products, using first 5 products">>) = 1
        /\ ~rankReply.some
        /\ pc = "labels"
        /\ err = <<>>

WitC10 ==
    /\ Exhausted("Selecting best products")
    /\ Len(products) = 6
    /\ Len(selectedProducts) = 5
    /\ pc = "labels"

\* C11 (as claimed): a run that reached the ranking stage with at least one
\* candidate and raised no Error does not end without having issued the
\* SelectionPrompt.
CexC11_RankingNeverAborts ==
    (pc = "returned" /\ calls["selectBestProducts"] = 1 /\ Len(products) >= 1 /\ err = <<>>)
        => calls["sendOptions"] = 1

\* the warnings of the supervisor for the named operation, in the order sent
Warnings(opName, sent) ==
    SelectSeq(sent, LAMBDA m : startsWith(m, <<" ">> \o opName \o <<" failed (attempt ">>))

\* C12: the step in which the last attempt of the query-planning call fails
\* leaves the run with the userPrompt, unchanged, as its search query, the
\* fallback warning sent once after the three failure warnings, no Error
\* raised and the navigation next; the query is not changed afterwards and
\* performSearch searches with it.
C12_QueryFallbackIsPrompt ==
    [][/\ (pc = "generateSearchQuery" /\ attempt = maxRetries /\ faults' # faults =>
             /\ searchQuery' = userPrompt
             /\ userPrompt' = userPrompt
             /\ Len(Warnings(OpQuery, msgs')) = maxRetries
             /\ msgs'[Len(msgs')] = MsgQueryFallback(userPrompt)
             /\ Count(msgs', MsgQueryFallback(userPrompt)) = 1
             /\ err' = <<>>
             /\ pc' = "navigateToShopApp")
       /\ (pc # "generateSearchQuery" => searchQuery' = searchQuery)
       /\ (pc = "performSearch" => msgs' = <<MsgQueryReady(searchQuery)>> /\ pc' = "search")]_vars

WitC12 == pc = "extract" /\ searchQuery = userPrompt /\ url = "results"

\* the supervised operation run() is in, and its attempt limit
Supervised == {"generateSearchQuery", "search", "extract", "rank", "labels",
               "getSelectedProduct", "clickProduct", "buyNow"}

OpOf(p) ==
    CASE p = "generateSearchQuery" -> OpQuery
      [] p = "search" -> OpSearch
      [] p = "extract" -> OpExtract
      [] p = "rank" -> OpRank
      [] p = "labels" -> OpLabels
      [] p = "getSelectedProduct" -> OpIndex
      [] p = "clickProduct" -> OpClick(clickTarget)
      [] p = "buyNow" -> OpBuyNow

MaxOf(p) == IF p = "buyNow" THEN BuyNowMaxRetries ELSE maxRetries

\* the warnings are those of attempts 1..n of the operation, in order
Numbered(w, opName, max, n) ==
    /\ Len(w) = n
    /\ \A i \in 1..n :
          startsWith(w[i], <<" ">> \o opName
                             \o <<" failed (attempt ", ToString(i), "/", ToString(max), "): ">>)

\* a step of a supervised operation, as C13 describes it
SupervisedStep ==
    pc \in Supervised =>
        LET op == OpOf(pc)
            succeeds == IF pc = "buyNow" THEN url' = "checkout" ELSE faults' = faults
        IN /\ Numbered(Warnings(op, msgs), op, MaxOf(pc), attempt - 1)
           /\ (succeeds =>
                 /\ Numbered(Warnings(op, msgs'), op, MaxOf(pc), attempt - 1)
                 /\ attempt - 1 < MaxOf(pc)
                 /\ pc' # pc
                 /\ err' = err
                 /\ (pc = "generateSearchQuery" =>
                       \E c \in QueryContents : searchQuery' = trim(c))
                 /\ (pc = "extract" =>
                       \E cards \in Pages : /\ extractOperation(cards).ok
                                            /\ products' = extractCards(cards))
                 /\ (pc = "rank" =>
                       \E c \in RankContents : selectedProducts' = rankFromReply(products, c))
                 /\ (pc = "labels" =>
                       \E c \in LabelContents : labels' = labelsFromReply(c))
                 /\ (pc = "getSelectedProduct" =>
                       \E c \in IndexContents : selectedProductIndex' = indexFromReply(c)))

\* C13: while a supervised operation is at its attempt number a, exactly
\* a - 1 warnings have been sent for it, numbered 1..a-1 in order; the
\* attempt that succeeds adds none (so k failures leave exactly k warnings,
\* k < max), hands the operation's value to the caller, and ends the loop:
\* the operation is not invoked again.
C13_WarningsThenSuccess == [][SupervisedStep]_vars

WitC13 ==
    /\ pc = "selectBestProducts"
    /\ Len(Warnings(OpExtract, msgs)) = 2
    /\ Len(products) >= 1

\* the operations whose exhaustion reaches run() as an Error
Throwing == {OpSearch, OpExtract, OpLabels, OpBuyNow} \cup
            {OpClick(originalSelection.selectedProduct)}

\* the Errors an attempt of an operation can throw
Underlying ==
    {PageError, ErrNoCards, ErrNoneExtracted, ErrNoButton,
     ErrNotFound(originalSelection.selectedProduct)}
    \cup CompletionErrors
    \cup {ErrNotProductPage(u) : u \in {"product", "other", "results", "home", "checkout"}}

\* C14: when an operation has failed on every attempt, the Error that
\* reaches the handlers of run() is "<operationName> failed after <max>
\* attempts. Last error: <message of the last underlying error>"; the
\* operation has been invoked max times (the loop variable stands at max)
\* and exactly max warnings, numbered 1..max, have been sent for it, the
\* last one carrying the same underlying message.
C14_ExhaustionRaisesTerminalError ==
    (pc \in {"catch", "retryCatch", "retryWithOriginalSelection"}) =>
        \A op \in Throwing :
            LET max == IF op = OpBuyNow THEN BuyNowMaxRetries ELSE maxRetries
                w == Warnings(op, msgs)
            IN startsWith(err, op \o <<" failed after ">>) =>
                 /\ attempt = max
                 /\ Numbered(w, op, max, max)
                 /\ \E e \in Underlying :
                       /\ err = ExhaustedError(op, max, e)
                       /\ w[max] = FailedMsg(op, max, max, e)

WitC14 ==
    /\ pc = "catch"
    /\ startsWith(err, OpExtract \o <<" failed after ", "3">>)
    /\ Len(Warnings(OpExtract, msgs)) = 3

\* C15 (as claimed): an attempt of clickBuyNow made off a product page
\* fails the run at once: the check is not retried, the run goes to a
\* failure handler and not into the recovery cycle, and the page is left
\* alone.
CexC15_PreconditionIsFatal ==
    [][(pc = "buyNow" /\ url # "product") =>
          /\ pc' \in {"catch", "retryCatch"}
          /\ attempt' = attempt
          /\ url' = url]_vars

\* the messages that report the failure of the run, in the order sent
TerminalFailures(sent) ==
    SelectSeq(sent, LAMBDA m : \/ startsWith(m, <<"Critical error in agent execution: ">>)
                               \/ startsWith(m, <<" Retry failed: ">>))

\* C16 (as claimed): a run that has ended in its failure path has sent
\* exactly one message reporting the failure, the supervisor's warnings not
\* counted.
CexC16_OneTerminalFailureMessage ==
    (pc = "returned" /\ TerminalFailures(msgs) # <<>>) => Len(TerminalFailures(msgs)) = 1

\* C17 (as claimed): the SelectionPrompt is issued with as many labels as
\* the RankedSelection has entries.
CexC17_LabelsMatchSelection ==
    pc = "awaitOptions" => Len(labels) = Len(selectedProducts)

\* C18 (as claimed): a run that has ended after the checkout control was
\* activated has sent the screenshot image or a message giving the reason
\* of its failure.
CexC18_ScreenshotOrReason ==
    (pc = "returned" /\ url = "checkout") =>
        \/ images >= 1
        \/ TerminalFailures(msgs) # <<>>

\* a step of the UI and the run, as C19 describes it
PromptStep ==
    /\ (pendingOptionsResolve =>
          pc = "awaitOptions" /\ isRespondingToOptions /\ isTakingInput)
    /\ (pc = "awaitOptions" => pendingOptionsResolve)
    /\ calls'["sendOptions"] <= 1
    /\ answers' <= calls'["sendOptions"]
    /\ (pc = "awaitOptions" /\ pc' # pc =>
          /\ \E input \in userPrompts \cup SelectionResponses :
                trim(input) # <<>> /\ selectedOption' = trim(input)
          /\ answers' = answers + 1
          /\ ~pendingOptionsResolve' /\ ~isRespondingToOptions'
          /\ pc' = "getSelectedProduct"
          /\ UNCHANGED <<calls, tails, uber, userPrompt, session, selectedProducts, labels>>)
    /\ (pc' = "initialize" /\ pc # "initialize" =>
          pc \in {"idle", "finally", "returned"} /\ ~pendingOptionsResolve)

\* C19: the UI holds a resolve exactly while the run in progress waits on
\* its prompt; a run issues at most one prompt and it is resolved at most
\* once; the first submission accepted while the prompt is pending resolves
\* it with the submitted text and starts no run; and no run is left behind
\* by a new request while it waits on a prompt, so no second promise is
\* outstanding.
C19_OnePromptResolvedOnce == [][PromptStep]_vars

WitC19 ==
    /\ pc = "getSelectedProduct"
    /\ answers = 1
    /\ tails = 1
    /\ selectedOption = <<"w">>
    /\ ~isTakingInput

\* C20: extractProducts is entered only after the search operation has
\* completed, its settling wait included (the page shows the results and the
\* "Waiting" message was the last thing sent); selectBestProducts is entered,
\* and the ranking call is made, only after the extraction has completed
\* with at least one candidate.
C20_PipelineOrder ==
    /\ (pc = "extractProducts" =>
          /\ calls["performSearch"] = 1
          /\ url = "results"
          /\ msgs[Len(msgs)] = MsgWaiting
          /\ err = <<>>)
    /\ (calls["extractProducts"] >= 1 =>
          calls["performSearch"] = 1 /\ pc \notin {"performSearch", "search"})
    /\ (pc \in {"selectBestProducts", "rank"} \/ calls["selectBestProducts"] >= 1 =>
          /\ calls["extractProducts"] = 1
          /\ pc \notin {"performSearch", "search", "extractProducts", "extract"}
          /\ Len(products) >= 1
          /\ \E cards \in Pages : products = extractCards(cards))

WitC20 == pc = "rank" /\ Len(products) = 2 /\ calls["performSearch"] = 1

\* C21 (as claimed): when orderMeal rejects, the error is the one a step of
\* the flow threw and the agent's browser is not left open.
CexC21_BrowserClosedOnReject ==
    [][(uber'.result = "rejected" /\ uber.result # "rejected") =>
          /\ uber'.thrown # ""
          /\ uber'.browser # "open"]_vars

\* C22 (as claimed): a step of the run that makes a page-automation or a
\* completion-service call is an attempt of an operation executed by
\* retryWithBackoff.
CexC22_AllCallsSupervised ==
    [][(\E i \in DOMAIN ev' : ev'[i] \in {"page", "llm"}) => pc \in Supervised]_vars

\* C23 (as claimed): every Candidate that extraction has returned has a
\* non-empty title and a non-empty link.
CexC23_CandidatesNonEmpty ==
    \A i \in DOMAIN products : products[i].title # <<>> /\ products[i].href # <<>>

\* the delay, in ms, the claim gives for the wait after failed attempt i
RECURSIVE BackoffOf(_)
BackoffOf(i) == IF i = 1 THEN 1000 ELSE 2 * BackoffOf(i - 1)

\* a step of a supervised operation, as C24 describes it
BackoffStep ==
    pc \in Supervised =>
        LET succeeds == IF pc = "buyNow" THEN url' = "checkout" ELSE faults' = faults
            waited == IF ~succeeds /\ attempt < MaxOf(pc) THEN attempt ELSE attempt - 1
        IN /\ Len(waits') = waited
           /\ \A i \in 1..waited : waits'[i] = BackoffOf(i)
           /\ (~succeeds /\ attempt < MaxOf(pc) => pc' = pc /\ attempt' = attempt + 1)

\* C24: after an attempt of a supervised operation, the waits made for it
\* are exactly those after its failed attempts i < max, of 1000 * 2^(i-1) ms
\* each and in that order: a failed attempt that is not the last adds its
\* wait and is followed by the next attempt, the last failed attempt and a
\* successful attempt add none.
C24_BackoffSchedule == [][BackoffStep]_vars

WitC24 ==
    /\ pc = "catch"
    /\ waits = <<1000, 2000>>
    /\ Len(Warnings(OpExtract, msgs)) = 3

\* a step of the run, as C25 describes it
RecoveryStep ==
    /\ (pc' = "retryWithOriginalSelection" /\ pc # pc' =>
          /\ pc = "buyNow" /\ ~inRecovery
          /\ attempt = BuyNowMaxRetries
          /\ url' # "checkout"
          /\ \E e \in Underlying : err' = ExhaustedError(OpBuyNow, BuyNowMaxRetries, e))
    /\ (~inRecovery /\ pc \notin {"buyNow", "retryWithOriginalSelection"} /\ err' # err =>
          pc' = "catch")
    /\ (pc = "retryWithOriginalSelection" \/ (inRecovery /\ pc = "clickProduct") =>
          /\ (err' # err => pc' = "retryCatch")
          /\ calls'["clickBuyNow"] = 1)
    /\ (pc \in {"retryCatch", "catch", "finally", "returned"} /\ pc' # "initialize" =>
          /\ pc' \in {"catch", "finally", "returned"}
          /\ calls' = calls \/ (pc = "finally" /\ calls'["clickBuyNow"] = calls["clickBuyNow"]))

\* C25: retryWithOriginalSelection is entered only from the main flow's
\* clickBuyNow, when its supervisor has used up its attempts; an Error of any
\* other stage of the main flow, clickProduct included, goes straight to
\* run()'s catch; inside the recovery an Error of the return to the results
\* or of clickProduct goes to the recovery's catch with clickBuyNow not
\* entered a second time, and from there the run only reports and ends.
C25_RecoveryOnlyAfterCheckout == [][RecoveryStep]_vars

WitC25 ==
    /\ pc = "returned"
    /\ calls["retryWithOriginalSelection"] = 1
    /\ calls["clickBuyNow"] = 1
    /\ calls["clickProduct"] = 2
    /\ startsWith(err, <<"Clicking product: ">>)

\* a step of the run, as C26 describes it
ImageStep ==
    /\ images' <= 1
    /\ (images' # images =>
          /\ pc = "buyNow" /\ url = "product"
          /\ url' = "checkout"
          /\ pc' = "finally"
          /\ err' = err
          /\ msgs'[Len(msgs')] = MsgOrderSetUp)
    /\ (images = 1 =>
          /\ pc \in {"finally", "returned"}
          /\ pc' = "returned"
          /\ msgs' = msgs
          /\ TerminalFailures(msgs) = <<>>
          /\ UNCHANGED <<images, url, calls["clickBuyNow"], calls["clickProduct"]>>)

\* C26: a run sends at most one image; the step that sends it is an attempt
\* of clickBuyNow's operation that starts on a product page and ends on the
\* checkout page, the button clicked; after it the run only comes to its
\* end: no Error is raised, no failure is reported and nothing else is sent.
C26_OneImageAfterCheckout == [][ImageStep]_vars

WitC26 ==
    /\ pc = "returned"
    /\ images = 1
    /\ calls["retryWithOriginalSelection"] = 1
    /\ calls["clickBuyNow"] = 2

\* a step of the run, as C27 describes it
CaughtStep ==
    /\ (err' # err /\ pc' # "initialize" =>
          pc' \in {"catch", "retryCatch", "retryWithOriginalSelection"})
    /\ (pc = "retryWithOriginalSelection" =>
          pc' \in {"clickProduct", "retryCatch"})
    /\ (pc = "retryCatch" => pc' = "catch" /\ err' = err)
    /\ (pc = "catch" =>
          pc' = "finally" /\ msgs' = Append(msgs, MsgCritical(err)) /\ err' = err)
    /\ (pc = "finally" => pc' = "returned")

\* C27: an Error raised by any step of the run is taken by a handler inside
\* run(): the catch around clickBuyNow (which starts the recovery), the
\* catch of the recovery (which reports and rethrows to run()'s catch) or
\* run()'s catch, which reports it; from there run() passes its finally
\* block and returns.
C27_RunNeverRejects == [][CaughtStep]_vars

WitC27 ==
    /\ pc = "returned"
    /\ err = PageError
    /\ browser = "none"
    /\ msgs = <<MsgCritical(PageError)>>

\* the run has returned and its browser session is closed (or was never
\* opened)
Terminal == pc = "returned" /\ browser \in {"none", "closed"}

\* C28: a run whose calls all return or fail comes to its terminal state
\* with the session closed, or stays suspended on the SelectionPrompt and
\* nowhere else; if the human answers whenever the prompt is pending, it
\* comes to its terminal state.
C28_Termination ==
    /\ (pc = "initialize" ~> (Terminal \/ pc = "awaitOptions"))
    /\ (WF_vars(HumanAnswer) => (pc = "initialize" ~> Terminal))

WitC28 ==
    /\ Terminal
    /\ browser = "closed"
    /\ answers = 1
    /\ calls["retryWithOriginalSelection"] = 1
    /\ err # <<>>

\* C29 (as claimed): input is accepted only when no run is in flight or
\* the run in flight waits on its SelectionPrompt, and no run is started
\* beside a run that has not returned.
CexC29_OneRunInFlight ==
    /\ tails = 0
    /\ (isTakingInput => pc \in {"idle", "returned", "awaitOptions"})

\* C30 (as claimed): once the run has returned and no other run is in
\* flight, which is a state the UI has no further step to leave by itself,
\* the UI takes input for a new request.
CexC30_InputReturnsAfterRun ==
    pc = "returned" /\ tails = 0 => isTakingInput /\ ~isRespondingToOptions

====
